---- MODULE Spec2Model ----
(***************************************************************************)
(* Model of skimage.util.dtype (convert, _check_precision_loss and the     *)
(* img_as_* wrappers).                                                     *)
(*                                                                         *)
(* Array elements keep the width of their dtype.  TLC's own 32-bit         *)
(* integers are narrower than the 64-bit dtypes of the program, so every   *)
(* program integer is held as a sign and a magnitude, the magnitude a      *)
(* little-endian sequence of limbs in base 2^15 (Python's unbounded int);  *)
(* a fixed-width numpy value is such an integer wrapped to its width.      *)
(***************************************************************************)
EXTENDS Integers, Sequences, FiniteSets, TLC

VARIABLES pc, input, args, result, warnings

vars == <<pc, input, args, result, warnings>>

(***************************************************************************)
(* Unbounded naturals: little-endian limbs, no most-significant zero limb. *)
(***************************************************************************)
LimbBits == 15

Base == 32768

RECURSIVE Pow2Small(_)
Pow2Small(k) == IF k = 0 THEN 1 ELSE 2 * Pow2Small(k - 1)

RECURSIVE NNorm(_)
NNorm(s) ==
    IF s = <<>> THEN <<>>
    ELSE IF s[Len(s)] = 0 THEN NNorm(SubSeq(s, 1, Len(s) - 1))
    ELSE s

RECURSIVE NFromInt(_)
NFromInt(n) == IF n = 0 THEN <<>> ELSE <<n % Base>> \o NFromInt(n \div Base)

NLimb(a, i) == IF i <= Len(a) THEN a[i] ELSE 0

RECURSIVE NCmpFrom(_, _, _)
NCmpFrom(a, b, i) ==
    IF i = 0 THEN 0
    ELSE IF a[i] < b[i] THEN -1
    ELSE IF a[i] > b[i] THEN 1
    ELSE NCmpFrom(a, b, i - 1)

NCmp(a, b) ==
    IF Len(a) < Len(b) THEN -1
    ELSE IF Len(a) > Len(b) THEN 1
    ELSE NCmpFrom(a, b, Len(a))

RECURSIVE NAddFrom(_, _, _, _)
NAddFrom(a, b, i, carry) ==
    IF i > Len(a) /\ i > Len(b)
    THEN (IF carry = 0 THEN <<>> ELSE <<carry>>)
    ELSE LET t == NLimb(a, i) + NLimb(b, i) + carry
         IN  <<t % Base>> \o NAddFrom(a, b, i + 1, t \div Base)

NAdd(a, b) == NAddFrom(a, b, 1, 0)

RECURSIVE NSubFrom(_, _, _, _)
NSubFrom(a, b, i, borrow) ==
    IF i > Len(a) THEN <<>>
    ELSE LET t == a[i] - NLimb(b, i) - borrow
         IN  IF t < 0 THEN <<t + Base>> \o NSubFrom(a, b, i + 1, 1)
             ELSE <<t>> \o NSubFrom(a, b, i + 1, 0)

\* a - b for a >= b
NSub(a, b) == NNorm(NSubFrom(a, b, 1, 0))

RECURSIVE NMulLimbFrom(_, _, _, _)
NMulLimbFrom(a, d, i, carry) ==
    IF i > Len(a) THEN (IF carry = 0 THEN <<>> ELSE <<carry>>)
    ELSE LET t == a[i] * d + carry
         IN  <<t % Base>> \o NMulLimbFrom(a, d, i + 1, t \div Base)

NShiftLimbs(a, k) == IF a = <<>> THEN <<>> ELSE [i \in 1..k |-> 0] \o a

RECURSIVE NMulFrom(_, _, _)
NMulFrom(a, b, j) ==
    IF j > Len(b) THEN <<>>
    ELSE NAdd(NShiftLimbs(NNorm(NMulLimbFrom(a, b[j], 1, 0)), j - 1),
              NMulFrom(a, b, j + 1))

NMul(a, b) == NMulFrom(a, b, 1)

\* 2^k
NPow2(k) == [i \in 1..(k \div LimbBits) |-> 0] \o <<Pow2Small(k % LimbBits)>>

\* a mod 2^k
NModPow2(a, k) ==
    LET q == k \div LimbBits
        r == k % LimbBits
    IN  IF Len(a) <= q THEN a
        ELSE NNorm(SubSeq(a, 1, q) \o <<a[q + 1] % Pow2Small(r)>>)

\* floor(a / 2^k)
NShr(a, k) ==
    LET q == k \div LimbBits
        r == k % LimbBits
        lo == Pow2Small(r)
        hi == Pow2Small(LimbBits - r)
    IN  IF Len(a) <= q THEN <<>>
        ELSE NNorm([i \in 1..(Len(a) - q) |->
                      (a[i + q] \div lo) + (NLimb(a, i + q + 1) % lo) * hi])

NShl(a, k) == NMul(a, NPow2(k))

\* number of significant bits of a
RECURSIVE SmallBitLen(_)
SmallBitLen(n) == IF n = 0 THEN 0 ELSE 1 + SmallBitLen(n \div 2)

NBitLen(a) ==
    IF a = <<>> THEN 0 ELSE (Len(a) - 1) * LimbBits + SmallBitLen(a[Len(a)])

NBit(a, k) == (NLimb(a, (k \div LimbBits) + 1) \div Pow2Small(k % LimbBits)) % 2

\* <<floor(a / b), a mod b>> for b > 0, by binary long division
RECURSIVE NDivModFrom(_, _, _, _, _)
NDivModFrom(a, b, k, q, r) ==
    IF k < 0 THEN <<q, r>>
    ELSE LET r2 == NAdd(NAdd(r, r), NFromInt(NBit(a, k)))
             q2 == NAdd(q, q)
         IN  IF Len(q2) >= 0 /\ NCmp(r2, b) >= 0
             THEN NDivModFrom(a, b, k - 1, NAdd(q2, <<1>>), NSub(r2, b))
             ELSE NDivModFrom(a, b, k - 1, q2, r2)

NDivMod(a, b) == NDivModFrom(a, b, NBitLen(a) - 1, <<>>, <<>>)

(***************************************************************************)
(* Python integers: a sign and a magnitude (zero is never negative).       *)
(***************************************************************************)
IMake(neg, mag) == [neg |-> neg /\ mag # <<>>, mag |-> mag]

\* the integer n, for a literal of the source that fits TLC's integers
Z(n) == IF n < 0 THEN IMake(TRUE, NFromInt(-n)) ELSE IMake(FALSE, NFromInt(n))

INeg(x) == IMake(~x.neg, x.mag)

IAdd(x, y) ==
    IF x.neg = y.neg THEN IMake(x.neg, NAdd(x.mag, y.mag))
    ELSE IF NCmp(x.mag, y.mag) >= 0 THEN IMake(x.neg, NSub(x.mag, y.mag))
    ELSE IMake(y.neg, NSub(y.mag, x.mag))

ISub(x, y) == IAdd(x, INeg(y))

IMul(x, y) == IMake(x.neg # y.neg, NMul(x.mag, y.mag))

ILess(x, y) ==
    IF x.neg /\ ~y.neg THEN TRUE
    ELSE IF ~x.neg /\ y.neg THEN FALSE
    ELSE IF x.neg THEN NCmp(x.mag, y.mag) > 0
    ELSE NCmp(x.mag, y.mag) < 0

ILeq(x, y) == ~ILess(y, x)

IMax(x, y) == IF ILess(x, y) THEN y ELSE x

\* 2 ** k
IPow2(k) == IMake(FALSE, NPow2(k))

\* x // y for y > 0 (Python floor division)
IFloorDiv(x, y) ==
    LET qr == NDivMod(x.mag, y.mag)
    IN  IF x.neg /\ qr[2] # <<>> THEN IMake(TRUE, NAdd(qr[1], <<1>>))
        ELSE IMake(x.neg, qr[1])

(***************************************************************************)
(* numpy dtypes.  np.bool8 is an alias of np.bool_; complex128 and object  *)
(* stand for the dtypes outside _supported_types.                          *)
(***************************************************************************)
DT(name, kind, itemsize) == [name |-> name, kind |-> kind, itemsize |-> itemsize]

bool_ == DT("bool", "b", 1)

uint8 == DT("uint8", "u", 1)

uint16 == DT("uint16", "u", 2)

uint32 == DT("uint32", "u", 4)

uint64 == DT("uint64", "u", 8)

int8 == DT("int8", "i", 1)

int16 == DT("int16", "i", 2)

int32 == DT("int32", "i", 4)

int64 == DT("int64", "i", 8)

float16 == DT("float16", "f", 2)

float32 == DT("float32", "f", 4)

float64 == DT("float64", "f", 8)

complex128 == DT("complex128", "c", 16)

object_ == DT("object", "O", 8)

supported_types ==
    {bool_, uint8, uint16, uint32, uint64, int8, int16, int32, int64,
     float16, float32, float64}

AllDtypes == supported_types \cup {complex128, object_}

\* np.dtype(kind + str(s))
DtypeOf(kind, s) == CHOOSE dt \in supported_types : dt.kind = kind /\ dt.itemsize = s

\* np.iinfo(dtype).min and .max
iinfo_min(dt) == IF dt.kind = "u" THEN Z(0) ELSE INeg(IPow2(8 * dt.itemsize - 1))

iinfo_max(dt) ==
    IF dt.kind = "u" THEN ISub(IPow2(8 * dt.itemsize), Z(1))
    ELSE ISub(IPow2(8 * dt.itemsize - 1), Z(1))

\* the value of a fixed-width integer dtype that holds x modulo 2^(8*itemsize)
WrapInt(dt, x) ==
    LET bits == 8 * dt.itemsize
        low == NModPow2(x.mag, bits)
        u == IF x.neg /\ low # <<>> THEN NSub(NPow2(bits), low) ELSE low
    IN  IF dt.kind = "i" /\ NCmp(u, NPow2(bits - 1)) >= 0
        THEN IMake(TRUE, NSub(NPow2(bits), u))
        ELSE IMake(FALSE, u)

(***************************************************************************)
(* _check_precision_loss: the value it returns.                            *)
(***************************************************************************)
\* the predicate with a strict comparison for integer -> float
_check_precision_loss_strict(dtypeobj_in, dtypeobj_out, int_same_size_lossy) ==
    LET kind_in == dtypeobj_in.kind
        kind_out == dtypeobj_out.kind
        itemsize_in == dtypeobj_in.itemsize
        itemsize_out == dtypeobj_out.itemsize
    IN  IF kind_in # "b" /\ kind_out = "b" THEN TRUE
        ELSE IF kind_in = "f" /\ kind_out = "f" THEN itemsize_out < itemsize_in
        ELSE IF kind_in = "f" THEN TRUE
        ELSE IF kind_out = "f" THEN itemsize_in > itemsize_out
        ELSE IF (kind_in = "i" /\ kind_out = "i") \/ (kind_in = "u" /\ kind_out = "u")
             THEN IF itemsize_out < itemsize_in THEN TRUE
                  ELSE int_same_size_lossy /\ itemsize_out = itemsize_in
        ELSE IF kind_in = "u" /\ kind_out = "i" THEN itemsize_in >= itemsize_out
        ELSE IF kind_in = "i" /\ kind_out = "u" THEN itemsize_out < itemsize_in
        ELSE FALSE

_check_precision_loss(dtypeobj_in, dtypeobj_out, int_same_size_lossy) ==
    LET kind_in == dtypeobj_in.kind
        kind_out == dtypeobj_out.kind
        itemsize_in == dtypeobj_in.itemsize
        itemsize_out == dtypeobj_out.itemsize
    IN  IF kind_in # "b" /\ kind_out = "b" THEN TRUE
        ELSE IF kind_in = "f" /\ kind_out = "f" THEN itemsize_out < itemsize_in
        ELSE IF kind_in = "f" THEN TRUE
        ELSE IF kind_out = "f" THEN itemsize_in >= itemsize_out
        ELSE IF (kind_in = "i" /\ kind_out = "i") \/ (kind_in = "u" /\ kind_out = "u")
             THEN IF itemsize_out < itemsize_in THEN TRUE
                  ELSE int_same_size_lossy /\ itemsize_out = itemsize_in
        ELSE IF kind_in = "u" /\ kind_out = "i" THEN itemsize_in >= itemsize_out
        ELSE IF kind_in = "i" /\ kind_out = "u" THEN itemsize_out < itemsize_in
        ELSE FALSE

(***************************************************************************)
(* IEEE 754 binary floating point (float16, float32, float64): a value is  *)
(* NaN, an infinity, or (-1)^neg * mant * 2^exp with mant odd (zero: mant  *)
(* empty, exp 0, never negative).  Every operation rounds its exact result *)
(* to the nearest value of the format, ties to even.                       *)
(***************************************************************************)
FNaN == [cls |-> "nan", neg |-> FALSE, mant |-> <<>>, exp |-> 0]

FInf(neg) == [cls |-> "inf", neg |-> neg, mant |-> <<>>, exp |-> 0]

FZero == [cls |-> "fin", neg |-> FALSE, mant |-> <<>>, exp |-> 0]

RECURSIVE NTrailingZeros(_)
NTrailingZeros(a) ==
    IF a = <<>> THEN 0
    ELSE IF a[1] = 0 THEN LimbBits + NTrailingZeros(Tail(a))
    ELSE IF a[1] % 2 = 0 THEN 1 + NTrailingZeros(NShr(a, 1))
    ELSE 0

FFin(neg, mant, exp) ==
    IF mant = <<>> THEN FZero
    ELSE LET tz == NTrailingZeros(mant)
         IN  [cls |-> "fin", neg |-> neg, mant |-> NShr(mant, tz), exp |-> exp + tz]

\* significand bits, least normal exponent, greatest exponent
FPrecision(ct) == IF ct.itemsize = 2 THEN 11 ELSE IF ct.itemsize = 4 THEN 24 ELSE 53

FEmin(ct) == IF ct.itemsize = 2 THEN -14 ELSE IF ct.itemsize = 4 THEN -126 ELSE -1022

FEmax(ct) == IF ct.itemsize = 2 THEN 15 ELSE IF ct.itemsize = 4 THEN 127 ELSE 1023

\* (-1)^neg * M * 2^E rounded to format ct
FRound(ct, neg, M, E) ==
    IF M = <<>> THEN FZero
    ELSE
    LET p == FPrecision(ct)
        e == NBitLen(M) - 1 + E
        qe == (IF e > FEmin(ct) THEN e ELSE FEmin(ct)) - (p - 1)
    IN  IF E >= qe
        THEN (IF e > FEmax(ct) THEN FInf(neg) ELSE FFin(neg, M, E))
        ELSE LET shift == qe - E
                 q == NShr(M, shift)
                 rem == NModPow2(M, shift)
                 c == NCmp(rem, NPow2(shift - 1))
                 up == c > 0 \/ (c = 0 /\ NBit(q, 0) = 1)
                 q2 == IF up THEN NAdd(q, <<1>>) ELSE q
             IN  IF q2 = <<>> THEN FZero
                 ELSE IF NBitLen(q2) + qe - 1 > FEmax(ct) THEN FInf(neg)
                 ELSE FFin(neg, q2, qe)

\* float -> float cast
FCast(ct, a) == IF a.cls = "fin" THEN FRound(ct, a.neg, a.mant, a.exp) ELSE a

\* integer -> float cast
FFromInt(ct, x) == FRound(ct, x.neg, x.mag, 0)

FNeg(a) == IF a.cls = "nan" \/ (a.cls = "fin" /\ a.mant = <<>>) THEN a
           ELSE [a EXCEPT !.neg = ~a.neg]

FMul(ct, a, b) ==
    IF a.cls = "nan" \/ b.cls = "nan" THEN FNaN
    ELSE IF a.cls = "inf" \/ b.cls = "inf"
         THEN (IF (a.cls = "fin" /\ a.mant = <<>>) \/ (b.cls = "fin" /\ b.mant = <<>>)
               THEN FNaN ELSE FInf(a.neg # b.neg))
    ELSE FRound(ct, a.neg # b.neg, NMul(a.mant, b.mant), a.exp + b.exp)

FAdd(ct, a, b) ==
    IF a.cls = "nan" \/ b.cls = "nan" THEN FNaN
    ELSE IF a.cls = "inf"
         THEN (IF b.cls = "inf" /\ a.neg # b.neg THEN FNaN ELSE a)
    ELSE IF b.cls = "inf" THEN b
    ELSE LET e0 == IF a.exp < b.exp THEN a.exp ELSE b.exp
             x == IMake(a.neg, NShl(a.mant, a.exp - e0))
             y == IMake(b.neg, NShl(b.mant, b.exp - e0))
             t == IAdd(x, y)
         IN  FRound(ct, t.neg, t.mag, e0)

FSub(ct, a, b) == FAdd(ct, a, FNeg(b))

\* a / b for finite a and finite b # 0
FDiv(ct, a, b) ==
    IF a.mant = <<>> THEN FZero
    ELSE LET d == FPrecision(ct) + 2 + NBitLen(b.mant) - NBitLen(a.mant)
             s == IF d > 0 THEN d ELSE 0
             qr == NDivMod(NShl(a.mant, s), b.mant)
             m == NAdd(NAdd(qr[1], qr[1]), IF qr[2] = <<>> THEN <<>> ELSE <<1>>)
         IN  FRound(ct, a.neg # b.neg, m, a.exp - b.exp - s - 1)

\* a < b (false when either is NaN)
FLess(a, b) ==
    IF a.cls = "nan" \/ b.cls = "nan" THEN FALSE
    ELSE IF a.cls = "inf" THEN a.neg /\ ~(b.cls = "inf" /\ b.neg)
    ELSE IF b.cls = "inf" THEN ~b.neg
    ELSE LET e0 == IF a.exp < b.exp THEN a.exp ELSE b.exp
         IN  ILess(IMake(a.neg, NShl(a.mant, a.exp - e0)),
                   IMake(b.neg, NShl(b.mant, b.exp - e0)))

\* np.rint: to the nearest integer, ties to even
FRint(a) ==
    IF a.cls # "fin" \/ a.exp >= 0 THEN a
    ELSE LET shift == -a.exp
             q == NShr(a.mant, shift)
             c == NCmp(NModPow2(a.mant, shift), NPow2(shift - 1))
             up == c > 0 \/ (c = 0 /\ NBit(q, 0) = 1)
         IN  FFin(a.neg, IF up THEN NAdd(q, <<1>>) ELSE q, 0)

\* np.floor
FFloor(a) ==
    IF a.cls # "fin" \/ a.exp >= 0 THEN a
    ELSE LET q == NShr(a.mant, -a.exp)
         IN  FFin(a.neg, IF a.neg THEN NAdd(q, <<1>>) ELSE q, 0)

\* np.maximum / np.minimum (NaN propagates)
FMaximum(a, b) ==
    IF a.cls = "nan" \/ b.cls = "nan" THEN FNaN ELSE IF FLess(a, b) THEN b ELSE a

FMinimum(a, b) ==
    IF a.cls = "nan" \/ b.cls = "nan" THEN FNaN ELSE IF FLess(b, a) THEN b ELSE a

\* the integer part of a finite float (C truncation toward zero)
FTrunc(a) ==
    IF a.exp >= 0 THEN IMake(a.neg, NShl(a.mant, a.exp))
    ELSE IMake(a.neg, NShr(a.mant, -a.exp))

(***************************************************************************)
(* Arrays and the outcome of a call.  An array is [dtype, data]; data is a *)
(* sequence of BOOLEAN (bool), integers (u, i), floats (f) or opaque       *)
(* tokens (dtypes outside the supported set).                              *)
(***************************************************************************)
Array(dt, data) == [dtype |-> dt, data |-> data]

NoDtype == DT("", "", 0)

\* exceptions the call can end with
UnsupportedError == "ValueError: Can not convert"

OutOfRangeError == "ValueError: Images of type float must be between -1 and 1."

ZeroSizeError == "ValueError: zero-size array to reduction operation"

PrecLossNameError == "NameError: name 'prec_loss' is not defined"

StopIterationError == "StopIteration"

\* diagnostics (warn)
PrecisionLossWarning == "Possible precision loss"

SignLossWarning == "Possible sign loss"

DowncastWarning == "Downcasting without scaling"

\* same: the returned array is the caller's array object; after: the data of
\* the caller's array when the call ends; w: the warnings emitted, in order
Returned(dt, data, same, after, w) ==
    [status |-> "returned", exc |-> "", dtype |-> dt, data |-> data,
     same |-> same, after |-> after, warnings |-> w]

Raised(exc, after, w) ==
    [status |-> "raised", exc |-> exc, dtype |-> NoDtype, data |-> <<>>,
     same |-> FALSE, after |-> after, warnings |-> w]

\* a.max() of a non-empty integer array
amax(data) ==
    CHOOSE x \in {data[i] : i \in 1..Len(data)} :
        \A j \in 1..Len(data) : ILeq(data[j], x)

HasNaN(data) == \E i \in 1..Len(data) : data[i].cls = "nan"

\* np.min / np.max of a non-empty float array (NaN propagates)
fmin(data) ==
    IF HasNaN(data) THEN FNaN
    ELSE CHOOSE x \in {data[i] : i \in 1..Len(data)} :
             \A j \in 1..Len(data) : ~FLess(data[j], x)

fmax(data) ==
    IF HasNaN(data) THEN FNaN
    ELSE CHOOSE x \in {data[i] : i \in 1..Len(data)} :
             \A j \in 1..Len(data) : ~FLess(x, data[j])

(***************************************************************************)
(* convert: its nested helpers.                                            *)
(***************************************************************************)
\* the warning _check_precision_loss emits from convert
precision_warning(dtype_in, dtype_out, issue_warnings) ==
    IF issue_warnings /\ _check_precision_loss(dtype_in, dtype_out, FALSE)
    THEN <<PrecisionLossWarning>> ELSE <<>>

\* sign_loss(): convert never passes its own issue_warnings on, so the
\* parameter keeps its default, True
sign_loss(issue_warnings) ==
    IF issue_warnings THEN <<SignLossWarning>> ELSE <<>>

\* next(...) on an exhausted generator
StopIteration == DT("StopIteration", "", 0)

\* first of `dtypes` with itemsize >= `itemsize`
_dtype_itemsize(itemsize, dtypes) ==
    LET hits == {i \in 1..Len(dtypes) : dtypes[i].itemsize >= itemsize}
    IN  IF hits = {} THEN StopIteration
        ELSE dtypes[CHOOSE i \in hits : \A j \in hits : i <= j]

\* dtype of `kind` that can store a `bits` wide unsigned int
_dtype_bits(kind, bits, itemsize) ==
    LET cand == <<itemsize, 2, 4, 8>>
        hits == {i \in 1..4 : IF kind = "u" THEN bits <= cand[i] * 8
                                             ELSE bits < cand[i] * 8}
    IN  IF hits = {} THEN StopIteration
        ELSE DtypeOf(kind, cand[CHOOSE i \in hits : \A j \in hits : i <= j])

\* what _scale ends with: an array and the warnings so far, or an exception
ScaleOk(a, w) == [exc |-> "", arr |-> a, warnings |-> w]

ScaleRaised(exc, w) == [exc |-> exc, arr |-> Array(NoDtype, <<>>), warnings |-> w]

\* a.astype(dt) between integer dtypes
astype_int(a, dt) == Array(dt, [i \in 1..Len(a.data) |-> WrapInt(dt, a.data[i])])

\* np.multiply(a, k, out=b, dtype=dt) and a *= k in dtype dt
multiply_int(a, k, dt) ==
    Array(dt, [i \in 1..Len(a.data) |-> WrapInt(dt, IMul(WrapInt(dt, a.data[i]), k))])

\* n > m and a.max() < 2 ** m
fits_without_scaling(a, n, m) == n > m /\ ILess(amax(a.data), IPow2(m))

\* prec_loss() is defined nowhere: calling it raises NameError
prec_loss(w) == ScaleRaised(PrecLossNameError, w)

\* (2**m - 1) // (2**n - 1)
scale_factor(n, m) == IFloorDiv(ISub(IPow2(m), Z(1)), ISub(IPow2(n), Z(1)))

\* an upscale that shifts the values left by m - n bits
exact_upscale_by_shift(a, n, m, copy, w) ==
    LET dt == IF copy THEN _dtype_bits(a.dtype.kind, m, 1)
              ELSE _dtype_bits(a.dtype.kind, m, a.dtype.itemsize)
    IN  IF dt = StopIteration THEN ScaleRaised(StopIterationError, w)
        ELSE ScaleOk(multiply_int(a, IMake(FALSE, NPow2(m - n)), dt), w)

\* the exact upscale to a multiple of n bits
exact_upscale(a, n, m, copy, w) ==
    LET dt == IF copy THEN _dtype_bits(a.dtype.kind, m, 1)
              ELSE _dtype_bits(a.dtype.kind, m, a.dtype.itemsize)
    IN  IF dt = StopIteration THEN ScaleRaised(StopIterationError, w)
        ELSE ScaleOk(multiply_int(a, scale_factor(n, m), dt), w)

\* the branch taken when the maximum fits in m bits
downcast_without_scaling(a, m, w) ==
    LET dt == _dtype_bits(a.dtype.kind, m, 1)
        w2 == Append(w, DowncastWarning)
    IN  IF dt = StopIteration THEN ScaleRaised(StopIterationError, w2)
        ELSE ScaleOk(astype_int(a, dt), w2)

_scale(a, n, m, copy, w) ==
    IF n > m /\ Len(a.data) = 0 THEN ScaleRaised(ZeroSizeError, w)
    ELSE IF fits_without_scaling(a, n, m) THEN downcast_without_scaling(a, m, w)
    ELSE IF n = m THEN ScaleOk(a, w)
    ELSE IF n > m THEN prec_loss(w)
    ELSE IF m % n = 0 THEN exact_upscale(a, n, m, copy, w)
    ELSE prec_loss(w)

(***************************************************************************)
(* convert: the branches, in the order of the code.                        *)
(***************************************************************************)
FOne == FFin(FALSE, <<1>>, 0)

FTwo == FFin(FALSE, <<2>>, 0)

FHalf == FFin(FALSE, <<1>>, -1)

\* a Python int as an exact operand of true division
FExact(x) == FFin(x.neg, x.mag, 0)

\* the fast path without its copy: the input itself, whatever force_copy
fast_path_no_copy(image, force_copy, w) ==
    Returned(image.dtype, image.data, TRUE, image.data, w)

\* if dtype_in == dtype_out: image.copy() if force_copy, else image
fast_path(image, force_copy, w) ==
    Returned(image.dtype, image.data, ~force_copy, image.data, w)

\* the integer dtypes
IntDtypes == {dt \in supported_types : dt.kind \in {"u", "i"}}

\* imax - imin of an integer dtype
int_width(dt) == ISub(iinfo_max(dt), iinfo_min(dt))

\* The Python scalars convert computes from the dtype alone, each a float64;
\* they are tabulated per dtype so that each is worked out once.
\* dtype_in(dtype_range[dtype_in][1] / 2)
int_threshold == [dt \in IntDtypes |-> FTrunc(FDiv(float64, FExact(iinfo_max(dt)), FTwo))]

\* 1. / imax_in
recip_imax == [dt \in IntDtypes |-> FDiv(float64, FOne, FFromInt(float64, iinfo_max(dt)))]

\* 2. / (imax_in - imin_in)
two_over_width ==
    [dt \in IntDtypes |-> FDiv(float64, FTwo, FFromInt(float64, int_width(dt)))]

\* 1.0 / (imax_in - imin_in)
one_over_width ==
    [dt \in IntDtypes |-> FDiv(float64, FOne, FFromInt(float64, int_width(dt)))]

\* (imax_out - imin_out) / 2
half_width == [dt \in IntDtypes |-> FDiv(float64, FExact(int_width(dt)), FTwo)]

\* (imax_out - imin_out + 1.0) / 2.0
half_width_uniform ==
    [dt \in IntDtypes |->
        FDiv(float64, FAdd(float64, FFromInt(float64, int_width(dt)), FOne), FTwo)]

\* any -> binary
to_bool(image, w) ==
    LET kind_in == image.dtype.kind
        w2 == IF kind_in \in {"f", "i"} THEN w \o sign_loss(TRUE) ELSE w
        above(x) == IF kind_in = "f" THEN FLess(FCast(image.dtype, FHalf), x)
                    ELSE ILess(int_threshold[image.dtype], x)
    IN  Returned(bool_, [i \in 1..Len(image.data) |-> above(image.data[i])],
                 FALSE, image.data, w2)

\* binary -> any, without the multiplication by the target maximum
from_bool_unscaled(image, dtype_out, w) ==
    LET one(x) == IF dtype_out.kind = "f"
                  THEN (IF x THEN FOne ELSE FZero)
                  ELSE (IF x THEN Z(1) ELSE Z(0))
    IN  Returned(dtype_out, [i \in 1..Len(image.data) |-> one(image.data[i])],
                 FALSE, image.data, w)

\* binary -> any
from_bool(image, dtype_out, w) ==
    LET one(x) == IF dtype_out.kind = "f"
                  THEN (IF x THEN FOne ELSE FZero)
                  ELSE WrapInt(dtype_out,
                               IMul(IF x THEN Z(1) ELSE Z(0), iinfo_max(dtype_out)))
    IN  Returned(dtype_out, [i \in 1..Len(image.data) |-> one(image.data[i])],
                 FALSE, image.data, w)

\* the upper half of the range check alone: np.max(image) > 1.0
float_above_one(data) == FLess(FOne, fmax(data))

\* np.min(image) < -1.0 or np.max(image) > 1.0, image not empty
float_out_of_range(data) == FLess(fmin(data), FNeg(FOne)) \/ FLess(FOne, fmax(data))

\* float -> float
float_to_float(image, dtype_out, w) ==
    Returned(dtype_out, [i \in 1..Len(image.data) |-> FCast(dtype_out, image.data[i])],
             FALSE, image.data, w)

\* np.clip(x, lo, hi, out=image_out) with Python int bounds
clip(ct, x, lo, hi) == FMinimum(FMaximum(x, FFromInt(ct, lo)), FFromInt(ct, hi))

\* the Python scalar the image is multiplied by: imax_out, (imax_out - imin_out) / 2,
\* imax_out + 1 or (imax_out - imin_out + 1.0) / 2.0
float_factor(dtype_out, uniform) ==
    IF dtype_out.kind = "u"
    THEN FExact(IF uniform THEN IAdd(iinfo_max(dtype_out), Z(1)) ELSE iinfo_max(dtype_out))
    ELSE IF uniform THEN half_width_uniform[dtype_out] ELSE half_width[dtype_out]

\* what follows np.multiply: -= 1.0 / 2. and np.rint, or np.floor, or nothing
\* (0.5 is the same number in every float type)
float_rounded(ct, prod, dtype_out, uniform) ==
    IF ~uniform
    THEN FRint(IF dtype_out.kind = "u" THEN prod ELSE FSub(ct, prod, FHalf))
    ELSE IF dtype_out.kind = "u" THEN prod
    ELSE FFloor(prod)

\* one element of image_out before the final astype
float_scaled(ct, x, dtype_out, uniform) ==
    clip(ct,
         float_rounded(ct, FMul(ct, FCast(ct, x), FCast(ct, float_factor(dtype_out, uniform))),
                       dtype_out, uniform),
         IF uniform /\ dtype_out.kind = "u" THEN Z(0) ELSE iinfo_min(dtype_out),
         iinfo_max(dtype_out))

\* image_out.astype(dtype_out) of one element: C truncates toward zero; the
\* conversion of NaN, of an infinity and of a value outside the range of the
\* integer type is undefined, and the build decides what comes out
float_astype_int(dtype_out, v) ==
    IF v.cls = "fin" /\ ILeq(iinfo_min(dtype_out), FTrunc(v))
                     /\ ILeq(FTrunc(v), iinfo_max(dtype_out))
    THEN {FTrunc(v)}
    ELSE {iinfo_min(dtype_out), Z(0), iinfo_max(dtype_out)}
         \cup (IF v.cls = "fin" THEN {WrapInt(dtype_out, FTrunc(v))} ELSE {})

\* every sequence that takes its i-th element from sets[i]
SeqChoices(sets) ==
    {f \in [1..Len(sets) -> UNION {sets[i] : i \in 1..Len(sets)}] :
        \A i \in 1..Len(sets) : f[i] \in sets[i]}

\* image_out.astype(dtype_out): the input holds image_out afterwards when the
\* computation ran in place
float_to_int_cast(image, image_out, dtype_out, in_place, w) ==
    {Returned(dtype_out, d, FALSE, IF in_place THEN image_out ELSE image.data, w) :
        d \in SeqChoices([i \in 1..Len(image_out) |->
                             float_astype_int(dtype_out, image_out[i])])}

\* the float -> integer computation done in the caller's array whenever the
\* computation type is the input's, force_copy or not
float_to_int_in_place(ct, image, dtype_out, force_copy, uniform, w) ==
    IF ct = StopIteration THEN {Raised(StopIterationError, image.data, w)}
    ELSE float_to_int_cast(image,
             [i \in 1..Len(image.data) |->
                 float_scaled(ct, image.data[i], dtype_out, uniform)],
             dtype_out, ct = image.dtype, w)

\* the computation in computation_type ct
float_to_int_in(ct, image, dtype_out, force_copy, uniform, w) ==
    IF ct = StopIteration THEN {Raised(StopIterationError, image.data, w)}
    ELSE float_to_int_cast(image,
             [i \in 1..Len(image.data) |->
                 float_scaled(ct, image.data[i], dtype_out, uniform)],
             dtype_out, ~(force_copy \/ ct # image.dtype), w)

\* floating point -> integer: the set of outcomes
float_to_int(image, dtype_out, force_copy, uniform, w) ==
    float_to_int_in(_dtype_itemsize(dtype_out.itemsize, <<image.dtype, float32, float64>>),
                    image, dtype_out, force_copy, uniform, w)

\* image += 1.0 / (imax_in - imin_in), for a signed input only
int_to_float_shift(ct, prod, dtype_in) ==
    IF dtype_in.kind = "u" THEN prod
    ELSE FAdd(ct, prod, FCast(ct, one_over_width[dtype_in]))

\* one element: np.multiply(image, 1. / imax_in) or
\* np.multiply(image, 2. / (imax_in - imin_in)) and the shift, then dtype_out
int_to_float_one(ct, x, dtype_in, dtype_out) ==
    FCast(dtype_out,
          int_to_float_shift(ct,
              FMul(ct, FFromInt(ct, x),
                   FCast(ct, IF dtype_in.kind = "u" THEN recip_imax[dtype_in]
                             ELSE two_over_width[dtype_in])),
              dtype_in))

\* the computation in computation_type ct
int_to_float_in(ct, image, dtype_out, w) ==
    IF ct = StopIteration THEN Raised(StopIterationError, image.data, w)
    ELSE Returned(dtype_out,
             [i \in 1..Len(image.data) |->
                 int_to_float_one(ct, image.data[i], image.dtype, dtype_out)],
             FALSE, image.data, w)

\* signed/unsigned int -> float
int_to_float(image, dtype_out, w) ==
    int_to_float_in(_dtype_itemsize(image.dtype.itemsize, <<dtype_out, float32, float64>>),
                    image, dtype_out, w)

\* image.view(dtype_out) of what _scale returned (r), or its exception
scaled_view(r, image, dtype_out) ==
    IF r.exc # "" THEN Raised(r.exc, image.data, r.warnings)
    ELSE Returned(dtype_out, astype_int(r.arr, dtype_out).data, FALSE,
                  image.data, r.warnings)

\* what _scale returned (r) as it is, or its exception
scaled_as_is(r, image) ==
    IF r.exc # "" THEN Raised(r.exc, image.data, r.warnings)
    ELSE Returned(r.arr.dtype, r.arr.data, FALSE, image.data, r.warnings)

\* unsigned int -> int scaled to the full width of the target, sign bit included
unsigned_to_int_full_width(image, dtype_out, w) ==
    scaled_view(_scale(image, 8 * image.dtype.itemsize, 8 * dtype_out.itemsize, TRUE, w),
                image, dtype_out)

\* unsigned int -> signed/unsigned int
unsigned_to_int(image, dtype_out, w) ==
    IF dtype_out.kind = "i"
    THEN scaled_view(_scale(image, 8 * image.dtype.itemsize,
                            8 * dtype_out.itemsize - 1, TRUE, w),
                     image, dtype_out)
    ELSE scaled_as_is(_scale(image, 8 * image.dtype.itemsize,
                             8 * dtype_out.itemsize, TRUE, w),
                      image)

\* np.maximum(image, 0, out=result) of what _scale returned (r), or its exception
scaled_maximum(r, image, dtype_out) ==
    IF r.exc # "" THEN Raised(r.exc, image.data, r.warnings)
    ELSE Returned(dtype_out,
                  [i \in 1..Len(r.arr.data) |->
                      WrapInt(dtype_out, IMax(r.arr.data[i], Z(0)))],
                  FALSE, image.data, r.warnings)

\* signed int -> unsigned int
signed_to_unsigned(image, dtype_out, w) ==
    scaled_maximum(_scale(image, 8 * image.dtype.itemsize - 1, 8 * dtype_out.itemsize,
                          TRUE, w \o sign_loss(TRUE)),
                   image, dtype_out)

\* image += imin_out; image.astype(dtype_out) of what _scale returned (r)
scaled_shifted(r, image, dtype_out) ==
    IF r.exc # "" THEN Raised(r.exc, image.data, r.warnings)
    ELSE Returned(dtype_out,
                  [i \in 1..Len(r.arr.data) |->
                      WrapInt(dtype_out,
                          WrapInt(r.arr.dtype,
                              IAdd(r.arr.data[i], iinfo_min(dtype_out))))],
                  FALSE, image.data, r.warnings)

\* image.astype(dt); image -= imin_in; _scale(image, ..., copy=False)
signed_widened(dt, image, dtype_out, w) ==
    IF dt = StopIteration THEN Raised(StopIterationError, image.data, w)
    ELSE scaled_shifted(
             _scale(Array(dt, [i \in 1..Len(image.data) |->
                                  WrapInt(dt, ISub(WrapInt(dt, image.data[i]),
                                                   iinfo_min(image.dtype)))]),
                    8 * image.dtype.itemsize, 8 * dtype_out.itemsize, FALSE, w),
             image, dtype_out)

\* signed int -> signed int
signed_to_signed(image, dtype_out, w) ==
    IF image.dtype.itemsize > dtype_out.itemsize
    THEN scaled_as_is(_scale(image, 8 * image.dtype.itemsize - 1,
                             8 * dtype_out.itemsize - 1, TRUE, w),
                      image)
    ELSE signed_widened(_dtype_bits("i", dtype_out.itemsize * 8, 1), image, dtype_out, w)

\* the support test on the source dtype alone
unsupported_target_unchecked(dtype_in, dtype_out) == dtype_in \notin supported_types

\* not (dtype_in in _supported_types and dtype_out in _supported_types)
unsupported(dtype_in, dtype_out) ==
    ~(dtype_in \in supported_types /\ dtype_out \in supported_types)

\* convert(image, dtype, force_copy, uniform, issue_warnings): the set of
\* outcomes (one, unless a float -> int cast is undefined)
convert(image, dtype, force_copy, uniform, issue_warnings) ==
    LET dtype_in == image.dtype
        kind_in == dtype_in.kind
        kind_out == dtype.kind
        w == precision_warning(dtype_in, dtype, issue_warnings)
    IN  IF dtype_in = dtype THEN {fast_path(image, force_copy, <<>>)}
        ELSE IF unsupported(dtype_in, dtype)
        THEN {Raised(UnsupportedError, image.data, <<>>)}
        ELSE IF kind_out = "b" THEN {to_bool(image, w)}
        ELSE IF kind_in = "b" THEN {from_bool(image, dtype, w)}
        ELSE IF kind_in = "f"
        THEN IF image.data = <<>> THEN {Raised(ZeroSizeError, image.data, w)}
             ELSE IF float_out_of_range(image.data)
             THEN {Raised(OutOfRangeError, image.data, w)}
             ELSE IF kind_out = "f" THEN {float_to_float(image, dtype, w)}
             ELSE float_to_int(image, dtype, force_copy, uniform, w)
        ELSE IF kind_out = "f" THEN {int_to_float(image, dtype, w)}
        ELSE IF kind_in = "u" THEN {unsigned_to_int(image, dtype, w)}
        ELSE IF kind_out = "u" THEN {signed_to_unsigned(image, dtype, w)}
        ELSE {signed_to_signed(image, dtype, w)}

(***************************************************************************)
(* The state machine: the caller holds an array (input); one call is made  *)
(* on it and ends with a returned array or an exception.                   *)
(***************************************************************************)
MaxLen == 2

F(neg, n, exp) == FFin(neg, NFromInt(n), exp)

\* element values tried for each dtype: the ends of its range and the values
\* next to the thresholds the code compares with
Samples(dt) ==
    CASE dt = bool_ -> {FALSE, TRUE}
      [] dt = uint8 -> {Z(0), Z(127), Z(128), Z(255)}
      [] dt = uint16 -> {Z(0), Z(255), Z(256), iinfo_max(uint16)}
      [] dt = uint32 -> {Z(0), Z(255), IPow2(16), iinfo_max(uint32)}
      [] dt = uint64 -> {Z(0), Z(9), IPow2(63), iinfo_max(uint64)}
      [] dt = int8 -> {iinfo_min(int8), Z(-5), Z(64), iinfo_max(int8)}
      [] dt = int16 -> {iinfo_min(int16), Z(-200), Z(128), iinfo_max(int16)}
      [] dt = int32 -> {iinfo_min(int32), Z(-32769), Z(255), iinfo_max(int32)}
      [] dt = int64 -> {iinfo_min(int64), Z(-1), IPow2(62), iinfo_max(int64)}
      [] dt.kind = "f" -> {FNaN, F(TRUE, 3, -1), F(TRUE, 1, 0), FHalf, FOne,
                           F(FALSE, 3, -1)}
      [] OTHER -> {"x"}

\* the arrays of dtype dt with at most MaxLen elements
ArrayData(dt) == UNION {[1..n -> Samples(dt)] : n \in 0..MaxLen}

NoArgs == [op |-> "none"]

NoResult == [status |-> "none"]

Init ==
    /\ pc = "idle"
    /\ \E dt \in AllDtypes : \E data \in ArrayData(dt) : input = Array(dt, data)
    /\ args = NoArgs
    /\ result = NoResult
    /\ warnings = <<>>

Convert(dtype, force_copy, uniform, issue_warnings) ==
    /\ pc = "idle"
    /\ \E o \in convert(input, dtype, force_copy, uniform, issue_warnings) :
          /\ result' = [status |-> o.status, exc |-> o.exc, dtype |-> o.dtype,
                        data |-> o.data, same |-> o.same]
          /\ input' = [input EXCEPT !.data = o.after]
          /\ warnings' = o.warnings
    /\ args' = [op |-> "convert", image |-> input, dtype |-> dtype,
                force_copy |-> force_copy, uniform |-> uniform,
                issue_warnings |-> issue_warnings]
    /\ pc' = "done"

Next ==
    \E dtype \in AllDtypes, force_copy \in BOOLEAN, uniform \in BOOLEAN,
       issue_warnings \in BOOLEAN :
        Convert(dtype, force_copy, uniform, issue_warnings)

Spec == Init /\ [][Next]_vars

(***************************************************************************)
(* _check_precision_loss on its own: the dtype pair and the flags are the  *)
(* inputs, drawn in the initial state.                                     *)
(***************************************************************************)
InitPredicate ==
    /\ pc = "idle"
    /\ input = Array(NoDtype, <<>>)
    /\ \E dtypeobj_in \in AllDtypes, dtypeobj_out \in AllDtypes,
          issue_warnings \in BOOLEAN, int_same_size_lossy \in BOOLEAN :
          args = [op |-> "_check_precision_loss", dtypeobj_in |-> dtypeobj_in,
                  dtypeobj_out |-> dtypeobj_out, issue_warnings |-> issue_warnings,
                  int_same_size_lossy |-> int_same_size_lossy]
    /\ result = NoResult
    /\ warnings = <<>>

CheckPrecisionLoss ==
    /\ pc = "idle"
    /\ args.op = "_check_precision_loss"
    /\ LET has_loss == _check_precision_loss(args.dtypeobj_in, args.dtypeobj_out,
                                             args.int_same_size_lossy)
       IN  /\ result' = [status |-> "returned", has_loss |-> has_loss]
           /\ warnings' = IF args.issue_warnings /\ has_loss
                          THEN <<PrecisionLossWarning>> ELSE <<>>
    /\ pc' = "done"
    /\ UNCHANGED <<input, args>>

NextPredicate == CheckPrecisionLoss

SpecPredicate == InitPredicate /\ [][NextPredicate]_vars

(***************************************************************************)
(* Properties.                                                             *)
(***************************************************************************)
ConvertDone == pc = "done" /\ args.op = "convert"

SupportedPair == args.image.dtype \in supported_types /\ args.dtype \in supported_types

IsInt(dt) == dt.kind \in {"u", "i"}

\* a float input the documentation allows: every element finite and in [-1, 1]
FloatInDomain(data) ==
    \A i \in 1..Len(data) :
        data[i].cls = "fin" /\ ~FLess(data[i], FNeg(FOne)) /\ ~FLess(FOne, data[i])

InputInDomain == args.image.dtype.kind = "f" => FloatInDomain(args.image.data)

\* v lies in the representable range of dtype dt
InRange(dt, v) ==
    CASE dt.kind = "b" -> v \in BOOLEAN
      [] dt.kind = "f" -> v.cls = "fin" /\ ~FLess(v, FNeg(FOne)) /\ ~FLess(FOne, v)
      [] OTHER -> ILeq(iinfo_min(dt), v) /\ ILeq(v, iinfo_max(dt))

\* x clamped to the nearest bound of the integer dtype dt
Clamp(dt, x) ==
    IF ILess(x, iinfo_min(dt)) THEN iinfo_min(dt)
    ELSE IF ILess(iinfo_max(dt), x) THEN iinfo_max(dt)
    ELSE x

Contains(seq, x) == \E i \in 1..Len(seq) : seq[i] = x

\* C1 (as claimed): for a supported pair and an input convert accepts, every
\* element of the returned array lies in the target's representable range, and
\* where an integer is stored by a direct cast (the downcast without scaling)
\* a value outside the target's range is clamped to the nearest bound, not
\* wrapped modulo 2^N.
C1_RangeContainment ==
    (ConvertDone /\ SupportedPair /\ InputInDomain /\ result.status = "returned") =>
        /\ \A i \in 1..Len(result.data) : InRange(result.dtype, result.data[i])
        /\ (IsInt(args.image.dtype) /\ IsInt(args.dtype)
            /\ Contains(warnings, DowncastWarning)) =>
               \A i \in 1..Len(result.data) :
                   result.data[i] = Clamp(args.dtype, args.image.data[i])

\* C2 (as claimed): for every supported pair and every input (floats within
\* [-1, 1]) convert returns, raising nothing, an array of exactly the target dtype.
C2_Totality ==
    (ConvertDone /\ SupportedPair /\ InputInDomain) =>
        result.status = "returned" /\ result.dtype = args.dtype

\* the dtypes of test_range and test_range_extra_dtypes
EndpointDtypes == {uint8, uint16, uint32, int8, int16, int32, float32, float64}

SourceMin(dt) == IF dt.kind = "f" THEN FNeg(FOne) ELSE iinfo_min(dt)

SourceMax(dt) == IF dt.kind = "f" THEN FOne ELSE iinfo_max(dt)

\* C3 (as claimed): between the dtypes of the range tests, an input holding the
\* source minimum and maximum is converted, the maximum to the target maximum
\* and the minimum to the target minimum (to 0 when either side is unsigned).
C3_EndpointMapping ==
    (/\ ConvertDone
     /\ args.image.dtype \in EndpointDtypes /\ args.dtype \in EndpointDtypes
     /\ Contains(args.image.data, SourceMin(args.image.dtype))
     /\ Contains(args.image.data, SourceMax(args.image.dtype))) =>
        /\ result.status = "returned"
        /\ \A i \in 1..Len(args.image.data) :
              /\ args.image.data[i] = SourceMax(args.image.dtype) =>
                    result.data[i] = SourceMax(args.dtype)
              /\ args.image.data[i] = SourceMin(args.image.dtype) =>
                    result.data[i] =
                        IF args.image.dtype.kind = "u" \/ args.dtype.kind = "u"
                        THEN (IF args.dtype.kind = "f" THEN FZero ELSE Z(0))
                        ELSE SourceMin(args.dtype)

\* C4: when the target dtype is the input's dtype, convert returns the same
\* array object unless force_copy, and then a distinct array; the data are
\* those of the input, the input is untouched and nothing is warned.
C4_IdentityFastPath ==
    (ConvertDone /\ args.dtype = args.image.dtype) =>
        /\ result.status = "returned"
        /\ result.dtype = args.image.dtype
        /\ result.data = args.image.data
        /\ result.same = ~args.force_copy
        /\ input = args.image
        /\ warnings = <<>>

C4_Witness ==
    /\ ConvertDone
    /\ args.dtype = args.image.dtype
    /\ args.force_copy
    /\ Len(args.image.data) = MaxLen
    /\ result.status = "returned" /\ ~result.same

HasOutOfRange(data) ==
    \E i \in 1..Len(data) : FLess(data[i], FNeg(FOne)) \/ FLess(FOne, data[i])

\* C5 (as claimed): a float input with an element below -1.0 or above 1.0 makes
\* convert fail with the out-of-range error, whatever the target dtype.
C5_FloatValidationAnyTarget ==
    (ConvertDone /\ args.image.dtype.kind = "f" /\ HasOutOfRange(args.image.data)) =>
        result.status = "raised" /\ result.exc = OutOfRangeError

\* C5 (amended): a float input without NaN that has an element below -1.0 or
\* above 1.0 makes convert fail with the out-of-range error for every supported
\* target dtype other than bool and the input's own dtype; the input is untouched.
C5_FloatValidation ==
    (/\ ConvertDone /\ args.image.dtype.kind = "f"
     /\ HasOutOfRange(args.image.data) /\ ~HasNaN(args.image.data)
     /\ args.dtype \in supported_types
     /\ args.dtype # args.image.dtype /\ args.dtype.kind # "b") =>
        result.status = "raised" /\ result.exc = OutOfRangeError /\ input = args.image

C5_Witness ==
    /\ ConvertDone /\ args.image.dtype = float32 /\ args.dtype = uint8
    /\ args.image.data = <<FHalf, F(TRUE, 3, -1)>>
    /\ result.status = "raised" /\ result.exc = OutOfRangeError

\* C6 (as claimed): whenever the source or the target dtype is outside the
\* supported set, also when both are the same unsupported dtype, convert fails
\* with the unsupported-dtype error.
C6_UnsupportedAnyPair ==
    (ConvertDone /\ ~SupportedPair) =>
        result.status = "raised" /\ result.exc = UnsupportedError

\* C6 (amended): whenever the source and target dtypes differ and one of them is
\* outside the supported set, convert fails with the unsupported-dtype error,
\* returns no array, warns nothing and leaves the input untouched.
C6_Unsupported ==
    (ConvertDone /\ ~SupportedPair /\ args.dtype # args.image.dtype) =>
        /\ result.status = "raised" /\ result.exc = UnsupportedError
        /\ warnings = <<>> /\ input = args.image

C6_Witness ==
    /\ ConvertDone /\ args.image.dtype = uint8 /\ args.dtype = complex128
    /\ Len(args.image.data) = MaxLen
    /\ result.status = "raised" /\ result.exc = UnsupportedError

PredicateDone == pc = "done" /\ args.op = "_check_precision_loss"

\* C7: over the supported dtypes _check_precision_loss is true exactly for:
\* non-bool to bool; float to narrower float; float to integer; integer to
\* float no wider than the integer; same-signedness integers to a narrower
\* one, or an equally wide one when int_same_size_lossy; unsigned to signed no
\* wider; signed to narrower unsigned.  Bool to non-bool is never lossy, and
\* the warning is issued exactly when issue_warnings is set and the result true.
C7_PrecisionLossTable ==
    (/\ PredicateDone
     /\ args.dtypeobj_in \in supported_types
     /\ args.dtypeobj_out \in supported_types) =>
        LET i == args.dtypeobj_in
            o == args.dtypeobj_out
            lossy ==
                \/ i.kind # "b" /\ o.kind = "b"
                \/ i.kind = "f" /\ o.kind = "f" /\ o.itemsize < i.itemsize
                \/ i.kind = "f" /\ IsInt(o)
                \/ IsInt(i) /\ o.kind = "f" /\ i.itemsize >= o.itemsize
                \/ IsInt(i) /\ o.kind = i.kind /\ o.itemsize < i.itemsize
                \/ IsInt(i) /\ o.kind = i.kind /\ o.itemsize = i.itemsize
                      /\ args.int_same_size_lossy
                \/ i.kind = "u" /\ o.kind = "i" /\ i.itemsize >= o.itemsize
                \/ i.kind = "i" /\ o.kind = "u" /\ o.itemsize < i.itemsize
        IN  /\ result.has_loss = lossy
            /\ (i.kind = "b" /\ o.kind # "b") => ~result.has_loss
            /\ warnings = IF args.issue_warnings /\ lossy
                          THEN <<PrecisionLossWarning>> ELSE <<>>

C7_Witness ==
    /\ PredicateDone
    /\ args.dtypeobj_in = uint16 /\ args.dtypeobj_out = float16
    /\ args.issue_warnings /\ ~args.int_same_size_lossy
    /\ result.has_loss /\ warnings = <<PrecisionLossWarning>>

\* what a caller observes of an outcome besides the warnings
Observable(o) == [status |-> o.status, exc |-> o.exc, dtype |-> o.dtype, data |-> o.data]

\* C8 (as claimed): the outcome of convert (dtype and values returned, or the
\* error raised) is the same with issue_warnings set as without, and signalling
\* a loss of precision never makes the conversion fail.
C8_DiagnosticsAdvisory ==
    ConvertDone =>
        /\ {Observable(o) : o \in convert(args.image, args.dtype, args.force_copy,
                                          args.uniform, TRUE)}
           = {Observable(o) : o \in convert(args.image, args.dtype, args.force_copy,
                                            args.uniform, FALSE)}
        /\ ~(result.status = "raised" /\ result.exc = PrecLossNameError)

\* C9 (as claimed): with issue_warnings=False convert emits no diagnostic at
\* all, for every supported pair and every input.
C9_Suppression ==
    (ConvertDone /\ SupportedPair /\ ~args.issue_warnings) => warnings = <<>>

\* significant bits of an integer dtype: the n and m handed to _scale
SigBits(dt) == 8 * dt.itemsize - (IF dt.kind = "i" THEN 1 ELSE 0)

\* C10 (as claimed): an integer to integer conversion from n to m < n
\* significant bits whose input maximum is below 2^m succeeds, emits the
\* downcast notice and no precision-loss notice, and every output element
\* equals the input element, negative elements included.
C10_DowncastWithoutScaling ==
    (/\ ConvertDone /\ SupportedPair
     /\ IsInt(args.image.dtype) /\ IsInt(args.dtype)
     /\ SigBits(args.image.dtype) > SigBits(args.dtype)
     /\ Len(args.image.data) > 0
     /\ ILess(amax(args.image.data), IPow2(SigBits(args.dtype)))) =>
        /\ result.status = "returned"
        /\ result.dtype = args.dtype
        /\ Contains(warnings, DowncastWarning)
        /\ ~Contains(warnings, PrecisionLossWarning)
        /\ result.data = args.image.data

(***************************************************************************)
(* A uint8 array converted to uint16 and back (uniform=False): two calls   *)
(* of convert, the second on the array the first returned.                 *)
(***************************************************************************)
RoundTripSamples == {Z(0), Z(1), Z(2), Z(127), Z(128), Z(254), Z(255)}

InitRoundTrip ==
    /\ pc = "start"
    /\ \E data \in UNION {[1..n -> RoundTripSamples] : n \in 0..MaxLen} :
          input = Array(uint8, data)
    /\ args = NoArgs
    /\ result = NoResult
    /\ warnings = <<>>

\* y = convert(x, np.uint16, force_copy, False, issue_warnings)
ToUint16(force_copy, issue_warnings) ==
    /\ pc = "start"
    /\ \E o \in convert(input, uint16, force_copy, FALSE, issue_warnings) :
          /\ result' = [status |-> o.status, exc |-> o.exc, dtype |-> o.dtype,
                        data |-> o.data, same |-> o.same]
          /\ input' = [input EXCEPT !.data = o.after]
          /\ warnings' = o.warnings
    /\ args' = [op |-> "roundtrip", image |-> input, force_copy |-> force_copy,
                issue_warnings |-> issue_warnings]
    /\ pc' = "upscaled"

\* convert(y, np.uint8, force_copy, False, issue_warnings)
BackToUint8 ==
    /\ pc = "upscaled"
    /\ result.status = "returned"
    /\ \E o \in convert(Array(result.dtype, result.data), uint8, args.force_copy,
                        FALSE, args.issue_warnings) :
          /\ result' = [status |-> o.status, exc |-> o.exc, dtype |-> o.dtype,
                        data |-> o.data, same |-> o.same]
          /\ warnings' = warnings \o o.warnings
    /\ pc' = "back"
    /\ UNCHANGED <<input, args>>

NextRoundTrip ==
    \/ \E force_copy \in BOOLEAN, issue_warnings \in BOOLEAN :
          ToUint16(force_copy, issue_warnings)
    \/ BackToUint8

SpecRoundTrip == InitRoundTrip /\ [][NextRoundTrip]_vars

\* C11 (as claimed): a uint8 array converted to uint16 and back to uint8 with
\* uniform=False comes back element-wise equal to the array that went in.
C11_UpscaleReversible ==
    pc = "back" =>
        /\ result.status = "returned"
        /\ result.dtype = uint8
        /\ result.data = args.image.data

\* x is strictly greater than half of the maximum of its dtype dt
AboveHalfMax(dt, x) ==
    IF dt.kind = "f" THEN FLess(FHalf, x)
    ELSE ILess(iinfo_max(dt), IMul(Z(2), x))

\* C12 (as claimed): converting a non-bool supported dtype to bool, an element
\* becomes True exactly when it is strictly greater than half of the source
\* dtype's maximum (0.5 for floats), so every negative element becomes False.
C12_ToBool ==
    (/\ ConvertDone /\ SupportedPair
     /\ args.image.dtype.kind # "b" /\ args.dtype.kind = "b") =>
        /\ result.status = "returned"
        /\ result.dtype = bool_
        /\ Len(result.data) = Len(args.image.data)
        /\ \A i \in 1..Len(args.image.data) :
              result.data[i] = AboveHalfMax(args.image.dtype, args.image.data[i])

\* the value the documentation gives a True element in dtype dt
TrueValue(dt) == IF dt.kind = "f" THEN FOne ELSE iinfo_max(dt)

\* zero of dtype dt
ZeroValue(dt) == IF dt.kind = "f" THEN FZero ELSE Z(0)

\* np.sum of the elements of an array of dtype dt
RECURSIVE Sum(_, _)
Sum(dt, data) ==
    IF data = <<>> THEN ZeroValue(dt)
    ELSE IF dt.kind = "f" THEN FAdd(dt, data[1], Sum(dt, Tail(data)))
    ELSE IAdd(data[1], Sum(dt, Tail(data)))

\* C13: converting bool to a supported non-bool dtype, False becomes 0 and True
\* the target's maximum (1.0 for a float target), so an image with exactly one
\* True element sums to the target maximum.
C13_FromBool ==
    (/\ ConvertDone /\ args.image.dtype = bool_
     /\ args.dtype \in supported_types /\ args.dtype # bool_) =>
        /\ result.status = "returned"
        /\ result.dtype = args.dtype
        /\ Len(result.data) = Len(args.image.data)
        /\ \A i \in 1..Len(args.image.data) :
              result.data[i] = IF args.image.data[i] THEN TrueValue(args.dtype)
                               ELSE ZeroValue(args.dtype)
        /\ Cardinality({i \in 1..Len(args.image.data) : args.image.data[i]}) = 1 =>
              Sum(args.dtype, result.data) = TrueValue(args.dtype)

C13_Witness ==
    /\ ConvertDone /\ args.image.dtype = bool_ /\ args.dtype = int16
    /\ Len(args.image.data) = 2
    /\ ~args.image.data[1] /\ args.image.data[2]
    /\ result.status = "returned"
    /\ result.data = <<Z(0), iinfo_max(int16)>>

\* a non-negative x of n significant bits scaled to m bits, as _scale documents it
BitScaled(x, n, m) ==
    IF n > m THEN IFloorDiv(x, IPow2(n - m))
    ELSE IF n = m THEN x
    ELSE IF m % n = 0 THEN IMul(x, scale_factor(n, m))
    ELSE LET o == ((m \div n) + 1) * n
         IN  IFloorDiv(IMul(x, scale_factor(n, o)), IPow2(o - m))

\* C14 (as claimed): a signed integer array converted to an unsigned integer
\* dtype is returned with a sign-loss notification; every negative element has
\* become 0 and every other element is its value scaled from 8*width_in - 1
\* bits to 8*width_out bits.
C14_SignedToUnsigned ==
    (/\ ConvertDone /\ SupportedPair
     /\ args.image.dtype.kind = "i" /\ args.dtype.kind = "u") =>
        /\ result.status = "returned"
        /\ result.dtype = args.dtype
        /\ Contains(warnings, SignLossWarning)
        /\ Len(result.data) = Len(args.image.data)
        /\ \A i \in 1..Len(args.image.data) :
              result.data[i] =
                  IF ILess(args.image.data[i], Z(0)) THEN Z(0)
                  ELSE BitScaled(args.image.data[i], SigBits(args.image.dtype),
                                 SigBits(args.dtype))

DefaultDtypeError == "ValueError: Provided default_dtype should be a float."

\* img_as_float32 does not hand issue_warnings on: convert runs with its default
img_as_float32(image, force_copy, issue_warnings) ==
    convert(image, float32, force_copy, FALSE, TRUE)

img_as_float64(image, force_copy, issue_warnings) ==
    convert(image, float64, force_copy, FALSE, issue_warnings)

img_as_uint(image, force_copy, issue_warnings) ==
    convert(image, uint16, force_copy, FALSE, issue_warnings)

img_as_int(image, force_copy, issue_warnings) ==
    convert(image, int16, force_copy, FALSE, issue_warnings)

img_as_ubyte(image, force_copy, issue_warnings) ==
    convert(image, uint8, force_copy, FALSE, issue_warnings)

img_as_bool(image, force_copy, issue_warnings) ==
    convert(image, bool_, force_copy, FALSE, issue_warnings)

\* img_as_float without its test of the input's kind: convert in every case
img_as_float_always_convert(image, force_copy, default_dtype, issue_warnings) ==
    IF default_dtype.kind # "f" THEN {Raised(DefaultDtypeError, image.data, <<>>)}
    ELSE convert(image, default_dtype, force_copy, FALSE, issue_warnings)

img_as_float(image, force_copy, default_dtype, issue_warnings) ==
    IF default_dtype.kind # "f" THEN {Raised(DefaultDtypeError, image.data, <<>>)}
    ELSE IF image.dtype.kind = "f"
    THEN {Returned(image.dtype, image.data, ~force_copy, image.data, <<>>)}
    ELSE convert(image, default_dtype, force_copy, FALSE, issue_warnings)

\* one call of a wrapper: its outcome becomes the result
Called(op, outcomes, force_copy, default_dtype, issue_warnings) ==
    /\ pc = "idle"
    /\ \E o \in outcomes :
          /\ result' = [status |-> o.status, exc |-> o.exc, dtype |-> o.dtype,
                        data |-> o.data, same |-> o.same]
          /\ input' = [input EXCEPT !.data = o.after]
          /\ warnings' = o.warnings
    /\ args' = [op |-> op, image |-> input, force_copy |-> force_copy,
                default_dtype |-> default_dtype, issue_warnings |-> issue_warnings]
    /\ pc' = "done"

ImgAsFloat32(force_copy, issue_warnings) ==
    Called("img_as_float32", img_as_float32(input, force_copy, issue_warnings),
           force_copy, NoDtype, issue_warnings)

ImgAsFloat64(force_copy, issue_warnings) ==
    Called("img_as_float64", img_as_float64(input, force_copy, issue_warnings),
           force_copy, NoDtype, issue_warnings)

ImgAsFloat(force_copy, default_dtype, issue_warnings) ==
    Called("img_as_float",
           img_as_float(input, force_copy, default_dtype, issue_warnings),
           force_copy, default_dtype, issue_warnings)

ImgAsUint(force_copy, issue_warnings) ==
    Called("img_as_uint", img_as_uint(input, force_copy, issue_warnings),
           force_copy, NoDtype, issue_warnings)

ImgAsInt(force_copy, issue_warnings) ==
    Called("img_as_int", img_as_int(input, force_copy, issue_warnings),
           force_copy, NoDtype, issue_warnings)

ImgAsUbyte(force_copy, issue_warnings) ==
    Called("img_as_ubyte", img_as_ubyte(input, force_copy, issue_warnings),
           force_copy, NoDtype, issue_warnings)

ImgAsBool(force_copy, issue_warnings) ==
    Called("img_as_bool", img_as_bool(input, force_copy, issue_warnings),
           force_copy, NoDtype, issue_warnings)

NextWrappers ==
    \E force_copy \in BOOLEAN, issue_warnings \in BOOLEAN :
        \/ ImgAsFloat32(force_copy, issue_warnings)
        \/ ImgAsFloat64(force_copy, issue_warnings)
        \/ ImgAsUint(force_copy, issue_warnings)
        \/ ImgAsInt(force_copy, issue_warnings)
        \/ ImgAsUbyte(force_copy, issue_warnings)
        \/ ImgAsBool(force_copy, issue_warnings)
        \/ \E default_dtype \in AllDtypes :
              ImgAsFloat(force_copy, default_dtype, issue_warnings)

SpecWrappers == Init /\ [][NextWrappers]_vars

WrapperDone(op) == pc = "done" /\ args.op = op

FloatWrapperTarget == IF args.op = "img_as_float32" THEN float32 ELSE float64

\* C17: img_as_float32 and img_as_float64 called on a float input of any float
\* dtype raise no error and return an array of the requested float dtype that
\* holds the input's values, also when values lie outside [-1.0, 1.0] (stated
\* for an input with at least one element).
C17_FloatWrappersKeepValues ==
    (/\ WrapperDone("img_as_float32") \/ WrapperDone("img_as_float64")
     /\ args.image.dtype.kind = "f"
     /\ Len(args.image.data) > 0)
    => /\ result.status = "returned"
       /\ result.dtype = FloatWrapperTarget
       /\ Len(result.data) = Len(args.image.data)
       /\ \A i \in 1..Len(result.data) :
             result.data[i] = FCast(FloatWrapperTarget, args.image.data[i])

\* C18: convert called with force_copy=True on a supported pair, of equal or
\* different dtypes, leaves the elements of the input array as they were, and
\* an array it returns is not the input array.
C18_ForceCopyIndependent ==
    (ConvertDone /\ SupportedPair /\ args.force_copy) =>
        /\ input = args.image
        /\ (result.status = "returned" => ~result.same)

\* a float64 image holding 0.5 converted with force_copy=True to an integer
\* dtype, which without force_copy is computed in the input array
C18_Witness ==
    /\ ConvertDone
    /\ args.force_copy
    /\ args.image.dtype = float64
    /\ IsInt(args.dtype)
    /\ Len(args.image.data) = MaxLen
    /\ \E i \in 1..Len(args.image.data) : args.image.data[i] = FHalf
    /\ result.status = "returned"
    /\ ~result.same
    /\ input = args.image

\* C20: an integer array scaled by _scale from n to m < n significant bits whose
\* maximum is at least 2^m (2^m itself included) comes back with every element
\* equal to floor(input / 2^(n-m)), the precision-loss diagnostic fires and the
\* downcast without scaling is not taken.  Stated on the conversions that
\* return what _scale computed: every narrowing but signed -> unsigned.
C20_TrueNarrowing ==
    (/\ ConvertDone /\ SupportedPair
     /\ IsInt(args.image.dtype) /\ IsInt(args.dtype)
     /\ ~(args.image.dtype.kind = "i" /\ args.dtype.kind = "u")
     /\ SigBits(args.image.dtype) > SigBits(args.dtype)
     /\ Len(args.image.data) > 0
     /\ ILeq(IPow2(SigBits(args.dtype)), amax(args.image.data))) =>
        /\ result.status = "returned"
        /\ result.dtype = args.dtype
        /\ Len(result.data) = Len(args.image.data)
        /\ \A i \in 1..Len(result.data) :
              result.data[i] =
                  IFloorDiv(args.image.data[i],
                            IPow2(SigBits(args.image.dtype) - SigBits(args.dtype)))
        /\ Contains(warnings, PrecisionLossWarning)
        /\ ~Contains(warnings, DowncastWarning)

(***************************************************************************)
(* regular_grid of util/_regular_grid.py, called once on a shape.  Shapes  *)
(* have at most two dimensions, for which the exponents 1.0 / ndim of the  *)
(* source are 1.0 and 0.5.                                                 *)
(***************************************************************************)
WarnNameError == "NameError: name 'warn' is not defined"

ReturnTypeError ==
    "ValueError: return_typle should be either 'list' or 'tuple'."

ZeroDivisionError == "ZeroDivisionError: float division by zero"

RemovedWarning == "The return_type parameter will be removed"

DefaultChangedWarning == "The default value of return_type will be changed"

GridReturned(kind, slices) ==
    [status |-> "returned", exc |-> "", kind |-> kind, slices |-> slices,
     warnings |-> <<>>]

GridRaised(exc) ==
    [status |-> "raised", exc |-> exc, kind |-> "", slices |-> <<>>,
     warnings |-> <<>>]

\* _regular_grid.py imports numpy only and binds the name warn nowhere:
\* calling warn(message) raises NameError and emits nothing
warn(message) == GridRaised(WarnNameError)

\* slice(start, None, step)
slice(start, step) == [all |-> FALSE, start |-> start, step |-> step]

\* slice(None)
slice_None == [all |-> TRUE, start |-> Z(0), step |-> Z(0)]

RECURSIVE prod(_)
\* np.prod of a sequence of dimensions (1 for the empty one)
prod(dims) == IF dims = <<>> THEN 1 ELSE Head(dims) * prod(Tail(dims))

\* np.argsort(np.argsort(ar_shape))[i], counted from 1: the place of dimension
\* i in the sorted shape (equal dimensions keep their order)
unsort_dim_idxs(ar_shape) ==
    [i \in 1..Len(ar_shape) |->
        1 + Cardinality({j \in 1..Len(ar_shape) :
                            \/ ar_shape[j] < ar_shape[i]
                            \/ ar_shape[j] = ar_shape[i] /\ j < i})]

\* np.sort(ar_shape)
sorted_dims(ar_shape) ==
    [k \in 1..Len(ar_shape) |->
        ar_shape[CHOOSE i \in 1..Len(ar_shape) : unsort_dim_idxs(ar_shape)[i] = k]]

RECURSIVE NSqrtFrom(_, _, _)
\* r with the bits from b down chosen greatest so that the square is at most a
NSqrtFrom(a, r, b) ==
    IF b < 0 THEN r
    ELSE IF NCmp(NMul(NAdd(r, NPow2(b)), NAdd(r, NPow2(b))), a) <= 0
    THEN NSqrtFrom(a, NAdd(r, NPow2(b)), b - 1)
    ELSE NSqrtFrom(a, r, b - 1)

\* the integer part of the square root of a
NSqrt(a) == NSqrtFrom(a, <<>>, NBitLen(a) \div 2)

\* the doubles next to r * 2^e, r being the integer square root of M: the value
\* itself when it is a double, else the double below and the double above
FSqrtNear(M, r, e, drop) ==
    IF NMul(r, r) = M /\ NShl(NShr(r, drop), drop) = r
    THEN {FFin(FALSE, r, e)}
    ELSE {FFin(FALSE, NShr(r, drop), e + drop),
          FFin(FALSE, NAdd(NShr(r, drop), <<1>>), e + drop)}

\* the square root of mant * 2^exp with mant shifted left by k bits
FSqrtShifted(mant, exp, k) ==
    FSqrtNear(NShl(mant, k), NSqrt(NShl(mant, k)), (exp - k) \div 2,
              NBitLen(NSqrt(NShl(mant, k))) - FPrecision(float64))

\* the least shift that leaves an even exponent and at least 112 bits
FSqrtShift(mant, exp) ==
    IF (exp - (112 - NBitLen(mant))) % 2 = 0 THEN 112 - NBitLen(mant)
    ELSE 113 - NBitLen(mant)

\* x ** 0.5 of a positive double: C's pow, known only to within one unit in the
\* last place, so every double next to the square root is an outcome
FSqrt(x) == FSqrtShifted(x.mant, x.exp, FSqrtShift(x.mant, x.exp))

\* x ** (1.0 / k) for k = 1 and k = 2
root(x, k) == CASE k = 1 -> {x} [] k = 2 -> FSqrt(x)

\* space_size / n_points, both positive
quotient(space_size, n_points) ==
    FDiv(float64, FFromInt(float64, Z(space_size)), FFromInt(float64, Z(n_points)))

\* (sorted_dims < stepsizes).any()
any_below(sorted, stepsizes) ==
    \E i \in 1..Len(sorted) : FLess(FFromInt(float64, Z(sorted[i])), stepsizes[i])

RECURSIVE discard(_, _, _, _)
\* one pass of the for loop with the steps of the later dimensions set to r:
\* break when every dimension fits, else the next dim
discard_step(dim, stepsizes, sorted, n_points) ==
    IF ~any_below(sorted, stepsizes) THEN {[exc |-> "", stepsizes |-> stepsizes]}
    ELSE discard(dim + 1, stepsizes, sorted, n_points)

\* the for loop from dim (counted from 1) on
discard(dim, stepsizes, sorted, n_points) ==
    IF dim > Len(sorted) THEN {[exc |-> "", stepsizes |-> stepsizes]}
    ELSE IF Len(sorted) - dim = 0
    THEN {[exc |-> ZeroDivisionError, stepsizes |-> stepsizes]}
    ELSE UNION {discard_step(dim,
                    [i \in 1..Len(sorted) |->
                        IF i < dim THEN stepsizes[i]
                        ELSE IF i = dim THEN FFromInt(float64, Z(sorted[dim]))
                        ELSE r],
                    sorted, n_points) :
                r \in root(quotient(prod(SubSeq(sorted, dim + 1, Len(sorted))),
                                    n_points),
                           Len(sorted) - dim)}

\* stepsizes after the test (sorted_dims < stepsizes).any() and its loop
fitted(stepsizes, sorted, n_points) ==
    IF any_below(sorted, stepsizes) THEN discard(1, stepsizes, sorted, n_points)
    ELSE {[exc |-> "", stepsizes |-> stepsizes]}

\* (stepsizes // 2).astype(int) and np.round(stepsizes).astype(int), one slice
\* for each step, put back in the order of ar_shape
slices_of(stepsizes, unsort) ==
    {[i \in 1..Len(unsort) |-> slice(starts[unsort[i]], steps[unsort[i]])] :
        starts \in SeqChoices([i \in 1..Len(stepsizes) |->
                     float_astype_int(int64, FFloor(FDiv(float64, stepsizes[i], FTwo)))]),
        steps \in SeqChoices([i \in 1..Len(stepsizes) |->
                     float_astype_int(int64, FRint(stepsizes[i]))])}

\* the return statements at the end
container(f, unsort, return_type) ==
    IF f.exc # "" THEN {GridRaised(f.exc)}
    ELSE {GridReturned(IF return_type = "list" THEN "list" ELSE "tuple", sl) :
             sl \in slices_of(f.stepsizes, unsort)}

\* regular_grid from np.asanyarray(ar_shape) on
grid(ar_shape, n_points, return_type) ==
    IF prod(ar_shape) <= n_points
    THEN {GridReturned("tuple", [i \in 1..Len(ar_shape) |-> slice_None])}
    ELSE IF n_points = 0 \/ Len(ar_shape) = 0 THEN {GridRaised(ZeroDivisionError)}
    ELSE UNION {container(f, unsort_dim_idxs(ar_shape), return_type) :
                f \in UNION {fitted([i \in 1..Len(ar_shape) |-> r],
                                    sorted_dims(ar_shape), n_points) :
                             r \in root(quotient(prod(ar_shape), n_points),
                                        Len(ar_shape))}}

\* identical: what return_type is 'list' evaluates to, which for a string equal
\* to 'list' is up to the interpreter
regular_grid(ar_shape, n_points, return_type, identical) ==
    IF identical THEN {warn(RemovedWarning)}
    ELSE IF return_type = "None" THEN {warn(DefaultChangedWarning)}
    ELSE IF return_type \notin {"list", "tuple"} THEN {GridRaised(ReturnTypeError)}
    ELSE grid(ar_shape, n_points, return_type)

MaxPoints == 8

GridShapes ==
    {<<>>, <<0>>, <<1>>, <<5>>, <<20>>, <<2, 2>>, <<5, 0>>, <<20, 40>>, <<40, 20>>,
     <<3, 50>>, <<50, 3>>, <<7, 5>>}

\* "None" is None, "array" any value that is none of None, 'list' and 'tuple'
ReturnTypes == {"tuple", "list", "None", "array"}

InitGrid ==
    /\ pc = "idle"
    /\ input \in {[shape |-> sh] : sh \in GridShapes}
    /\ args = NoArgs
    /\ result = NoResult
    /\ warnings = <<>>

RegularGrid(n_points, return_type, identical) ==
    /\ pc = "idle"
    /\ \E o \in regular_grid(input.shape, n_points, return_type, identical) :
          /\ result' = [status |-> o.status, exc |-> o.exc, kind |-> o.kind,
                        slices |-> o.slices]
          /\ warnings' = o.warnings
    /\ args' = [op |-> "regular_grid", ar_shape |-> input.shape,
                n_points |-> n_points, return_type |-> return_type,
                identical |-> identical]
    /\ pc' = "done"
    /\ UNCHANGED input

NextGrid ==
    \E n_points \in 0..MaxPoints, return_type \in ReturnTypes :
        \E identical \in (IF return_type = "list" THEN BOOLEAN ELSE {FALSE}) :
            RegularGrid(n_points, return_type, identical)

SpecGrid == InitGrid /\ [][NextGrid]_vars

GridDone == pc = "done" /\ args.op = "regular_grid"

\* C19: for every shape and every n_points of at least 1, regular_grid returns
\* a tuple and warns of nothing when return_type is 'tuple'; returns a list and
\* warns that the return_type parameter will be removed when it is 'list';
\* returns a list and warns that the default value of return_type will be
\* changed when it is None; raises the return_type ValueError for any other
\* value; and a returned container holds one slice for each dimension of
\* ar_shape.
C19_ReturnType ==
    (GridDone /\ args.n_points >= 1) =>
        IF args.return_type \notin {"tuple", "list", "None"}
        THEN result.status = "raised" /\ result.exc = ReturnTypeError
        ELSE /\ result.status = "returned"
             /\ Len(result.slices) = Len(args.ar_shape)
             /\ result.kind = (IF args.return_type = "tuple" THEN "tuple" ELSE "list")
             /\ warnings = (IF args.return_type = "tuple" THEN <<>>
                            ELSE IF args.return_type = "list" THEN <<RemovedWarning>>
                            ELSE <<DefaultChangedWarning>>)

(***************************************************************************)
(* convert called on the integer and bool arrays only.                     *)
(***************************************************************************)
InitInt ==
    /\ pc = "idle"
    /\ \E dt \in IntDtypes \cup {bool_} :
          \E data \in ArrayData(dt) : input = Array(dt, data)
    /\ args = NoArgs
    /\ result = NoResult
    /\ warnings = <<>>

SpecInt == InitInt /\ [][Next]_vars

\* an unsigned pair whose target width is a multiple of the (smaller) source width
ExactUpscalePair ==
    /\ args.image.dtype.kind = "u" /\ args.dtype.kind = "u"
    /\ args.image.dtype.itemsize < args.dtype.itemsize

\* C21: between unsigned dtypes of n and m bits, m a multiple of n greater than
\* n, convert returns an array of the target dtype whose every element is
\* input * (2^m - 1) / (2^n - 1), with no wrap-around in the m-bit type, and
\* no precision-loss diagnostic is emitted.
C21_ExactUpscale ==
    (ConvertDone /\ ExactUpscalePair) =>
        /\ result.status = "returned"
        /\ result.dtype = args.dtype
        /\ Len(result.data) = Len(args.image.data)
        /\ \A i \in 1..Len(result.data) :
              result.data[i] =
                  IFloorDiv(IMul(args.image.data[i],
                                 ISub(IPow2(SigBits(args.dtype)), Z(1))),
                            ISub(IPow2(SigBits(args.image.dtype)), Z(1)))
        /\ ~Contains(warnings, PrecisionLossWarning)

\* uint8 [127, 255] widened to uint64: 255 becomes the greatest uint64
C21_Witness ==
    /\ ConvertDone
    /\ args.image.dtype = uint8
    /\ args.dtype = uint64
    /\ Len(args.image.data) = 2
    /\ args.image.data[1] = Z(127)
    /\ args.image.data[2] = Z(255)
    /\ result.status = "returned"
    /\ result.data[2] = iinfo_max(uint64)

\* an integer pair that _scale widens from n to m bits, m no multiple of n:
\* unsigned to a wider signed dtype, signed to an unsigned dtype as wide or wider
InexactUpscalePair ==
    /\ IsInt(args.image.dtype) /\ IsInt(args.dtype)
    /\ args.image.dtype.kind # args.dtype.kind
    /\ SigBits(args.image.dtype) < SigBits(args.dtype)

\* C22: where _scale widens from n to m bits and m is no multiple of n, convert
\* returns, for every non-negative element, floor(input * ((2^o - 1) / (2^n - 1))
\* / 2^(o-m)) with o the least multiple of n above m, and the precision-loss
\* diagnostic fires.
C22_InexactUpscale ==
    (ConvertDone /\ InexactUpscalePair) =>
        /\ result.status = "returned"
        /\ result.dtype = args.dtype
        /\ Len(result.data) = Len(args.image.data)
        /\ \A i \in 1..Len(result.data) :
              ILeq(Z(0), args.image.data[i]) =>
                  result.data[i] = BitScaled(args.image.data[i],
                                             SigBits(args.image.dtype),
                                             SigBits(args.dtype))
        /\ Contains(warnings, PrecisionLossWarning)

SignedPair ==
    /\ args.image.dtype.kind = "i" /\ args.dtype.kind = "i"
    /\ args.image.dtype.itemsize # args.dtype.itemsize

\* the value the widening maps x to: rebias by the source minimum, scale from
\* 8*width_in to 8*width_out bits, rebias by the target minimum
Rebiased(x, dtype_in, dtype_out) ==
    IAdd(IFloorDiv(IMul(ISub(x, iinfo_min(dtype_in)),
                        ISub(IPow2(8 * dtype_out.itemsize), Z(1))),
                   ISub(IPow2(8 * dtype_in.itemsize), Z(1))),
         iinfo_min(dtype_out))

\* C23: between signed dtypes of different widths convert returns the target
\* dtype; narrowing, every element is bit-scaled from 8*width_in - 1 to
\* 8*width_out - 1 bits; widening, every element is rebiased by the source
\* minimum, bit-scaled from 8*width_in to 8*width_out bits and rebiased by the
\* target minimum (minimum to minimum, maximum to maximum, strictly
\* increasing), and this succeeds for every widening pair.
C23_SignedToSigned ==
    (ConvertDone /\ SignedPair) =>
        /\ result.status = "returned"
        /\ result.dtype = args.dtype
        /\ Len(result.data) = Len(args.image.data)
        /\ \A i \in 1..Len(result.data) :
              result.data[i] =
                  IF args.image.dtype.itemsize > args.dtype.itemsize
                  THEN BitScaled(args.image.data[i], SigBits(args.image.dtype),
                                 SigBits(args.dtype))
                  ELSE Rebiased(args.image.data[i], args.image.dtype, args.dtype)

\* C24: in an integer to integer conversion the output at a position is a
\* function of the input value at that position and of the dtype pair: when the
\* call returned, converting any other array of the same dtype the same way
\* returns as well, with the same output wherever it holds the same input
\* value.
C24_ElementwiseIndependent ==
    (/\ ConvertDone /\ SupportedPair
     /\ IsInt(args.image.dtype) /\ IsInt(args.dtype)
     /\ result.status = "returned") =>
        \A other \in ArrayData(args.image.dtype) :
            \A o \in convert(Array(args.image.dtype, other), args.dtype,
                             args.force_copy, args.uniform, args.issue_warnings) :
                \A i \in 1..Len(args.image.data), j \in 1..Len(other) :
                    other[j] = args.image.data[i] =>
                        /\ o.status = "returned"
                        /\ o.data[j] = result.data[i]

\* C25: for a supported pair of different dtypes and force_copy=False, the
\* elements of the caller's array after convert has returned or raised are its
\* elements before the call.
C25_InputNeverModified ==
    (/\ ConvertDone /\ SupportedPair
     /\ args.image.dtype # args.dtype
     /\ ~args.force_copy) =>
        input = args.image

\* x <= y between two elements of an integer or bool array
ElementLeq(dt, x, y) == IF dt.kind = "b" THEN x => y ELSE ILeq(x, y)

\* C26: from an integer or bool dtype to an integer dtype, the array convert
\* returns is ordered as the input is: input[i] <= input[j] implies
\* output[i] <= output[j].
C26_OrderPreserved ==
    (/\ ConvertDone /\ SupportedPair
     /\ args.image.dtype.kind \in {"b", "u", "i"} /\ IsInt(args.dtype)
     /\ result.status = "returned") =>
        \A i \in 1..Len(result.data), j \in 1..Len(result.data) :
            ElementLeq(args.image.dtype, args.image.data[i], args.image.data[j])
                => ILeq(result.data[i], result.data[j])

\* _scale took a branch that signals precision loss: it called prec_loss()
LossyBranchTaken == result.status = "raised" /\ result.exc = PrecLossNameError

\* C27: in a convert call between integer dtypes _scale takes a branch that
\* signals precision loss only if _check_precision_loss is true of the pair.
C27_PredicateAgreesWithScale ==
    (/\ ConvertDone
     /\ IsInt(args.image.dtype) /\ IsInt(args.dtype)
     /\ LossyBranchTaken) =>
        _check_precision_loss(args.image.dtype, args.dtype, FALSE)

\* the dtype each fixed-target wrapper stands for
WrapperTarget ==
    [img_as_float32 |-> float32, img_as_float64 |-> float64, img_as_uint |-> uint16,
     img_as_int |-> int16, img_as_ubyte |-> uint8, img_as_bool |-> bool_]

\* C28: img_as_float32, img_as_float64, img_as_uint, img_as_int, img_as_ubyte
\* and img_as_bool called with (image, force_copy, issue_warnings) end as
\* convert(image, T, force_copy, issue_warnings=issue_warnings) does for their
\* target T: the same returned array or error, the same effect on the input and
\* the same diagnostics, so that issue_warnings=False silences the
\* precision-loss warning.
C28_WrappersAreConvert ==
    (pc = "done" /\ args.op \in DOMAIN WrapperTarget) =>
        \E o \in convert(args.image, WrapperTarget[args.op], args.force_copy,
                         FALSE, args.issue_warnings) :
            /\ result.status = o.status
            /\ result.exc = o.exc
            /\ result.dtype = o.dtype
            /\ result.data = o.data
            /\ result.same = o.same
            /\ input.data = o.after
            /\ warnings = o.warnings

(***************************************************************************)
(* download_all of data/__init__.py.  input is image_fetcher, result holds *)
(* the locals of the call and the fetches made so far; fetch is pooch's,   *)
(* and each call of it either returns or raises.                           *)
(***************************************************************************)
MaxFiles == 3

Filenames ==
    <<"data/astronaut.png", "data/brick.png", "data/camera.png",
      "data/cells_qpi.npz", "data/chessboard_GRAY.png">>

\* image_fetcher.registry, in the order its keys are iterated
registry == SubSeq(Filenames, 1, MaxFiles)

\* values of image_fetcher.path and of the directory argument
Paths == {"~/.cache/scikit-image", "/data", "/tmp/images"}

FetchError == "fetch raised"

InitDownload ==
    /\ pc = "idle"
    /\ input \in {[path |-> p] : p \in Paths}
    /\ args = NoArgs
    /\ result = NoResult
    /\ warnings = <<>>

\* old_dir = image_fetcher.path; if directory is not None: image_fetcher.path = directory
DownloadAll(directory) ==
    /\ pc = "idle"
    /\ args' = [op |-> "download_all", directory |-> directory, path |-> input.path]
    /\ result' = [status |-> "running", exc |-> "", old_dir |-> input.path,
                  fetched |-> <<>>]
    /\ input' = [input EXCEPT !.path = IF directory # "None" THEN directory ELSE @]
    /\ pc' = "for"
    /\ UNCHANGED warnings

\* fetch(filename) of the next filename returns
FetchReturns ==
    /\ pc = "for"
    /\ Len(result.fetched) < Len(registry)
    /\ result' = [result EXCEPT !.fetched =
                     Append(@, [filename |-> registry[Len(@) + 1], path |-> input.path])]
    /\ UNCHANGED <<pc, input, args, warnings>>

\* fetch(filename) of the next filename raises: control goes to the finally clause
FetchRaises ==
    /\ pc = "for"
    /\ Len(result.fetched) < Len(registry)
    /\ result' = [result EXCEPT !.exc = FetchError]
    /\ pc' = "finally"
    /\ UNCHANGED <<input, args, warnings>>

\* the registry is exhausted
ForEnds ==
    /\ pc = "for"
    /\ Len(result.fetched) = Len(registry)
    /\ pc' = "finally"
    /\ UNCHANGED <<input, args, result, warnings>>

\* a clause that runs only when the loop ended without an exception
FinallyOnSuccess ==
    /\ pc = "finally"
    /\ input' = [input EXCEPT !.path = IF result.exc = "" THEN result.old_dir ELSE @]
    /\ result' = [result EXCEPT !.status = IF result.exc = "" THEN "returned" ELSE "raised"]
    /\ pc' = "done"
    /\ UNCHANGED <<args, warnings>>

\* finally: image_fetcher.path = old_dir, then the call returns or the
\* exception goes on to the caller
Finally ==
    /\ pc = "finally"
    /\ input' = [input EXCEPT !.path = result.old_dir]
    /\ result' = [result EXCEPT !.status = IF result.exc = "" THEN "returned" ELSE "raised"]
    /\ pc' = "done"
    /\ UNCHANGED <<args, warnings>>

NextDownload ==
    \/ \E directory \in Paths \cup {"None"} : DownloadAll(directory)
    \/ FetchReturns
    \/ FetchRaises
    \/ ForEnds
    \/ Finally

SpecDownload == InitDownload /\ [][NextDownload]_vars

DownloadStarted == pc # "idle" /\ args.op = "download_all"

\* C29: when download_all has ended, by returning or by an exception of a
\* fetch, image_fetcher.path is what it was before the call; and with a
\* directory given, every fetch is made with image_fetcher.path set to that
\* directory, all the files of the registry being fetched when the call returns.
C29_PathRestored ==
    DownloadStarted =>
        /\ pc = "done" => input.path = args.path
        /\ args.directory # "None" =>
              \A i \in 1..Len(result.fetched) : result.fetched[i].path = args.directory
        /\ result.status = "returned" =>
              [i \in 1..Len(result.fetched) |-> result.fetched[i].filename] = registry

\* a fetch raised after some file was fetched into a directory other than the
\* fetcher's own, and the call has ended
C29_Witness ==
    /\ DownloadStarted
    /\ pc = "done"
    /\ result.status = "raised"
    /\ args.directory # "None"
    /\ args.directory # args.path
    /\ Len(result.fetched) > 0
    /\ input.path = args.path

(***************************************************************************)
(* An integer image converted to a float type and back, both calls with    *)
(* the default arguments (uniform = False).                                *)
(***************************************************************************)
FloatDtypes == {dt \in supported_types : dt.kind = "f"}

\* the samples of the dtype and the values next to the ends of its range
FloatRoundTripSamples(dt) ==
    Samples(dt) \cup {Z(1), IAdd(iinfo_min(dt), Z(1)), ISub(iinfo_max(dt), Z(1))}

InitFloatRoundTrip ==
    /\ pc = "start"
    /\ \E dt \in IntDtypes :
          \E data \in UNION {[1..n -> FloatRoundTripSamples(dt)] : n \in 0..MaxLen} :
              input = Array(dt, data)
    /\ args = NoArgs
    /\ result = NoResult
    /\ warnings = <<>>

\* y = convert(x, F)
ToFloat(dtype) ==
    /\ pc = "start"
    /\ \E o \in convert(input, dtype, FALSE, FALSE, TRUE) :
          /\ result' = [status |-> o.status, exc |-> o.exc, dtype |-> o.dtype,
                        data |-> o.data, same |-> o.same]
          /\ input' = [input EXCEPT !.data = o.after]
          /\ warnings' = o.warnings
    /\ args' = [op |-> "float_roundtrip", image |-> input, dtype |-> dtype]
    /\ pc' = "float"

\* convert(y, I, uniform=False)
BackToInt ==
    /\ pc = "float"
    /\ result.status = "returned"
    /\ \E o \in convert(Array(result.dtype, result.data), args.image.dtype, FALSE,
                        FALSE, TRUE) :
          /\ result' = [status |-> o.status, exc |-> o.exc, dtype |-> o.dtype,
                        data |-> o.data, same |-> o.same]
          /\ warnings' = warnings \o o.warnings
    /\ pc' = "back"
    /\ UNCHANGED <<input, args>>

NextFloatRoundTrip ==
    \/ \E dtype \in FloatDtypes : ToFloat(dtype)
    \/ BackToInt

SpecFloatRoundTrip == InitFloatRoundTrip /\ [][NextFloatRoundTrip]_vars

FloatRoundTripDone == pc = "back" /\ args.op = "float_roundtrip"

\* C30: for an integer dtype I and a float dtype F for which the
\* precision-loss predicate reports no loss for I to F, and every array x of
\* dtype I, convert(convert(x, F), I, uniform=False) returns an array of dtype
\* I that is element-wise equal to x.
C30_FloatRoundTrip ==
    (FloatRoundTripDone /\ ~_check_precision_loss(args.image.dtype, args.dtype, FALSE)) =>
        /\ result.status = "returned"
        /\ result.dtype = args.image.dtype
        /\ result.data = args.image.data
====
